---- MODULE Spec2Model ----
(***************************************************************************)
(* Atlas Commute: the SchedulerAgent pipeline (classify -> fetch_context   *)
(* -> reason) of src/agents/scheduler/graph.py, run over a SchedulerState  *)
(* (src/agents/scheduler/state.py) built by the /v1/plan route or by the   *)
(* background worker.                                                      *)
(***************************************************************************)
EXTENDS Integers, Sequences, FiniteSets, TLC

VARIABLES
    caller,     \* who built the initial state: "api", "stream" or "worker"
    state,      \* the SchedulerState dict threaded through the graph
    pc,         \* the node the graph runs next, "fetch_wait", "END" or "RAISED"
    step,       \* number of supersteps the graph has executed
    t_task,     \* the traffic lookup coroutine of node_fetch_context
    f_task,     \* the flight lookup coroutine of node_fetch_context
    gather,     \* the future of asyncio.gather(t_task, f_task)
    hist,       \* history: one record per node execution of this run
    lookups,    \* how many times each provider lookup was issued in this run
    events,     \* what astream has yielded so far (the "stream" caller only)
    runs,       \* the concurrent requests of the server, each with its own run
    response,   \* what the caller's handler returned, None while it runs
    parse,      \* one pass of a node's output parser over a generated text
    metrics,    \* the counters of the metrics store, one per MetricKey
    handler     \* the route handler of each request of the server

vars == <<caller, state, pc, step, t_task, f_task, gather, hist, lookups,
          events, runs, response, parse, metrics, handler>>

----------------------------------------------------------------------------
(* Values *)

\* Python's None; a record, so that it compares with the other records.
None == [tag |-> "None"]

\* if state.get("retry_count", 0) > 3  (edge_check_classification)
ClassifyCeiling == 3

\* if state.get("retry_count", 0) > 3  (edge_check_reasoning)
ReasonCeiling == 3

\* The graph is compiled and invoked without a recursion_limit, so the
\* runner stops with GraphRecursionError after 25 supersteps.
RecursionLimit == 25

\* DecisionAction
DecisionAction == {"wait", "nudge_leave_now", "nudge_book_uber"}

\* An error_log entry: the text is prefix + msg.
Entry(prefix, msg) == [prefix |-> prefix, msg |-> msg]

\* str(e)
str(e) == Entry("", e)

\* f"Tool Failure: {str(e)}"
ToolFailure(e) == Entry("Tool Failure: ", e)

\* The user_id of the request of the /v1/plan route and of the worker payload.
RequestUserId == "u1"

\* UserContext(**context_data): the Intent the worker is started with.
SuppliedContext ==
    [user_id |-> RequestUserId, origin |-> "Home", destination |-> "JFK",
     flight_number |-> "BA112"]

----------------------------------------------------------------------------
(* The capabilities' and providers' answers *)

\* A field the generated object leaves out.
Missing == "<missing>"

\* The objects the Extraction capability may generate.
ClassifyObjects ==
    [user_id : {Missing, "", "u9"}, origin : {"A"}, destination : {"B"},
     flight_number : {"UA123", "ua-1"}]

\* The objects the Reasoning capability may generate.
ReasonObjects ==
    [recommended_action : DecisionAction \cup {"teleport"},
     notification_message : {"Leave now"}]

\* A capability call raises, or returns a message whose content is text
\* that is no JSON, or the text of a JSON object.
\* The message carries its token usage: total_tokens is an int.
Responses(objects) ==
    {[kind |-> "raise", obj |-> None, total_tokens |-> "int"],
     [kind |-> "garbage", obj |-> None, total_tokens |-> "int"]}
        \cup {[kind |-> "json", obj |-> o, total_tokens |-> "int"] : o \in objects}

\* Messages whose usage metadata holds something that is no number (a test
\* double, a null count), next to the well-formed ones.
UsageResponses(objects) ==
    {[kind |-> "json", obj |-> o, total_tokens |-> u] :
        o \in objects, u \in {"int", "not int"}}

\* TrafficMetrics the traffic provider may return.
TrafficValues ==
    {[status |-> "clear", duration_seconds |-> 600],
     [status |-> "gridlock", duration_seconds |-> 3600]}

\* FlightMetrics the flight provider may return; estimated_departure is in
\* minutes from the current time of the run.
FlightValues ==
    {[status |-> "on_time", estimated_departure |-> 40],
     [status |-> "delayed", estimated_departure |-> 240]}

----------------------------------------------------------------------------
(* LangGraph state handling *)

\* Variant: error_log without its reducer, so a returned list overwrites it.
error_log_overwrite(old, new) == new

\* Annotated[List[str], operator.add]: the reducer of error_log.
error_log_reducer(old, new) == old \o new

\* A node returns a partial dict; a key with a reducer is combined with the
\* old value, every other returned key overwrites it.
ApplyUpdate(st, upd) ==
    [k \in DOMAIN st |->
        IF k \in DOMAIN upd
        THEN IF k = "error_log" THEN error_log_reducer(st[k], upd[k]) ELSE upd[k]
        ELSE st[k]]

\* Truthiness of a state value: None is falsy, a model object is truthy.
Truthy(v) == v # None

----------------------------------------------------------------------------
(* The Structured Output Parser and the schemas *)

\* json.loads(json_str): the decoded object, or None when it raises.
json_loads(resp) == IF resp.kind = "json" THEN resp.obj ELSE None

\* UserContext.model_validate: user_id is a required str and flight_number
\* matches ^[A-Z0-9]{2,}\d+$.
UserContextValid(obj) ==
    /\ obj.user_id # Missing
    /\ obj.flight_number \in {"UA123", "BA112", "UA1"}

\* Variant: the schema accepts any action.
CommutePlanValid_any(obj) == TRUE

\* CommutePlan.model_validate: recommended_action is a DecisionAction.
CommutePlanValid(obj) == obj.recommended_action \in DecisionAction

\* Python's None in a field the model keeps as a string.
NoneStr == "<None>"

\* state.get("user_id"): user_id is no key of SchedulerState, so the graph
\* keeps no channel for it and a node reads None.
state_get_user_id(st) == NoneStr

\* <schema>.model_validate(obj)
model_validate(schema, obj) ==
    IF schema = "UserContext" THEN UserContextValid(obj) ELSE CommutePlanValid(obj)

\* The failure of the call, of the decoder or of the schema, as the text
\* of the exception.
ParseError(resp, schema) ==
    IF resp.kind = "raise" THEN "capability error"
    ELSE IF json_loads(resp) = None THEN "JSONDecodeError"
    ELSE IF ~model_validate(schema, json_loads(resp)) THEN "ValidationError"
    ELSE "ok"

\* Token tracking: token_count > 0 raises TypeError unless token_count is a
\* number; metrics.increment itself catches every exception of the store.
token_tracking(resp) ==
    IF resp.total_tokens = "int" THEN "ok" ELSE "TypeError"

\* The failure of one attempt: the try body runs the parse, then the token
\* tracking, and any exception of either reaches the except branch.
AttemptError(resp, schema) ==
    IF ParseError(resp, schema) # "ok" THEN ParseError(resp, schema)
    ELSE token_tracking(resp)

\* The corrective feedback of node_classify: the last error, if any.
classify_feedback(st) ==
    IF st.error_log # <<>> THEN st.error_log[Len(st.error_log)] ELSE None

\* The corrective feedback of node_reason.
reason_feedback(st) ==
    IF st.error_log # <<>> /\ st.retry_count > 0
    THEN st.error_log[Len(st.error_log)] ELSE None

----------------------------------------------------------------------------
(* The nodes: each returns the partial state it updates *)

\* node_classify's except branch.
classify_except(st, e) ==
    [error_log |-> <<str(e)>>, retry_count |-> st.retry_count + 1]

\* Variant: a successful attempt that leaves retry_count as it was.
node_classify_no_reset(st, resp) ==
    LET e == AttemptError(resp, "UserContext") IN
    IF e = "ok"
    THEN [user_context |-> json_loads(resp), retry_count |-> st.retry_count]
    ELSE classify_except(st, e)

\* node_classify
node_classify(st, resp) ==
    LET e == AttemptError(resp, "UserContext") IN
    IF e = "ok"
    THEN LET result == json_loads(resp) IN
         [user_context |->
              IF result.user_id = ""
              THEN [result EXCEPT !.user_id = state_get_user_id(st)]
              ELSE result,
          retry_count |-> 0]
    ELSE classify_except(st, e)

\* Variant: the except branch records nothing.
fetch_except_silent(st, e) == [error_log |-> <<>>]

\* Variant: the except branch counts the tool failure as a retry.
fetch_except_counts(st, e) ==
    [error_log |-> <<ToolFailure(e)>>, retry_count |-> st.retry_count + 1]

\* node_fetch_context's except branch.
fetch_except(st, e) == [error_log |-> <<ToolFailure(e)>>]

\* Variant: only the TimeoutError of wait_for is caught, so the exception
\* of a provider leaves the node.
fetch_route_uncaught(g) ==
    IF g.status = "exception" THEN "RAISED" ELSE "reason"

\* Where the run goes once the awaited gather is settled: except Exception
\* catches a provider's exception and the TimeoutError of wait_for alike,
\* and the edge of "fetch_context" leads to "reason".
fetch_route(g) == "reason"

\* The arguments node_fetch_context passes to the two providers: the
\* Intent's fields, an empty one replaced by its default.
fetch_arguments(ctx) ==
    [origin |-> IF ctx.origin \in {"", NoneStr} THEN "Current Location" ELSE ctx.origin,
     destination |-> IF ctx.destination \in {"", NoneStr} THEN "Airport" ELSE ctx.destination,
     flight_num |-> IF ctx.flight_number \in {"", NoneStr} THEN "UA1" ELSE ctx.flight_number]

\* Variant: only the traffic snapshot is returned.
fetch_return_traffic_only(traffic, flight) ==
    [traffic_data |-> traffic]

\* Variant: the successful fetch also resets retry_count.
fetch_return_resets(traffic, flight) ==
    [traffic_data |-> traffic, flight_data |-> flight, retry_count |-> 0]

\* node_fetch_context's return after the gather.
fetch_return(traffic, flight) ==
    [traffic_data |-> traffic, flight_data |-> flight]

\* Variant: the except branch forgets to count the attempt.
reason_except_no_count(st, e) ==
    [error_log |-> <<str(e)>>, retry_count |-> st.retry_count]

\* Variant: the except branch falls back to a default plan.
reason_except_fallback(st, e) ==
    [plan |-> [recommended_action |-> "wait"], error_log |-> <<str(e)>>,
     retry_count |-> st.retry_count + 1]

\* node_reason's except branch.
reason_except(st, e) ==
    [error_log |-> <<str(e)>>, retry_count |-> st.retry_count + 1]

\* The context node_reason formats into the prompt: the run's traffic and
\* flight data, or the fallback values when a lookup stored nothing.
reason_context(st) ==
    LET traffic == IF Truthy(st.traffic_data) THEN st.traffic_data
                   ELSE [status |-> "clear", duration_seconds |-> 0]
        flight == IF Truthy(st.flight_data) THEN st.flight_data
                  ELSE [status |-> "on_time", estimated_departure |-> 0]
    IN  [traffic_status |-> traffic.status,
         traffic_duration |-> traffic.duration_seconds,
         flight_status |-> flight.status,
         flight_time |-> flight.estimated_departure]

\* The prompt's TSA buffer and the threshold of its risk logic, in minutes.
TSABuffer == 45
RiskThreshold == 30

\* The action the prompt's instructions ask for in a context.
REASONER_SYSTEM(ctx) ==
    LET drop_dead == ctx.flight_time - (ctx.traffic_duration \div 60) - TSABuffer
    IN  IF drop_dead < RiskThreshold THEN "nudge_leave_now"
        ELSE IF ctx.traffic_status = "gridlock" THEN "nudge_book_uber"
        ELSE "wait"

\* Variant: the fallback values are stored in the state.
node_reason_stores_defaults(st, resp) ==
    LET e == AttemptError(resp, "CommutePlan")
        traffic == IF Truthy(st.traffic_data) THEN st.traffic_data
                   ELSE [status |-> "clear", duration_seconds |-> 0]
        flight == IF Truthy(st.flight_data) THEN st.flight_data
                  ELSE [status |-> "on_time", estimated_departure |-> 0]
    IN  IF e = "ok"
        THEN [plan |-> json_loads(resp), retry_count |-> 0,
              traffic_data |-> traffic, flight_data |-> flight]
        ELSE [error_log |-> <<str(e)>>, retry_count |-> st.retry_count + 1,
              traffic_data |-> traffic, flight_data |-> flight]

\* node_reason
node_reason(st, resp) ==
    LET e == AttemptError(resp, "CommutePlan") IN
    IF e = "ok"
    THEN [plan |-> json_loads(resp), retry_count |-> 0]
    ELSE reason_except(st, e)

----------------------------------------------------------------------------
(* The edges *)

\* Variant: the ceiling of classify is compared one too high.
edge_check_classification_one_more(st) ==
    IF Truthy(st.user_context) THEN "continue"
    ELSE IF st.retry_count > ClassifyCeiling + 1 THEN "end"
    ELSE "retry"

\* Variant: the edge never looks at the Intent.
edge_check_classification_always_continue(st) == "continue"

\* Variant: giving up is reported as "continue".
edge_check_classification_gives_up_forward(st) ==
    IF Truthy(st.user_context) THEN "continue"
    ELSE IF st.retry_count > ClassifyCeiling THEN "continue"
    ELSE "retry"

\* edge_check_classification
edge_check_classification(st) ==
    IF Truthy(st.user_context) THEN "continue"
    ELSE IF st.retry_count > ClassifyCeiling THEN "end"
    ELSE "retry"

\* Variant: the ceiling is compared one too high.
edge_check_reasoning_one_more(st) ==
    IF Truthy(st.plan) THEN "done"
    ELSE IF st.retry_count > ReasonCeiling + 1 THEN "done"
    ELSE "retry"

\* Variant: reason is left only with a plan.
edge_check_reasoning_needs_plan(st) ==
    IF Truthy(st.plan) THEN "done" ELSE "retry"

\* edge_check_reasoning
edge_check_reasoning(st) ==
    IF Truthy(st.plan) THEN "done"
    ELSE IF st.retry_count > ReasonCeiling THEN "done"
    ELSE "retry"

\* Variant: "end" is wired to fetch_context.
classify_route_end_to_fetch(r) ==
    CASE r = "continue" -> "fetch_context"
      [] r = "retry" -> "classify"
      [] r = "end" -> "fetch_context"

\* The conditional edges of "classify".
classify_route(r) ==
    CASE r = "continue" -> "fetch_context"
      [] r = "retry" -> "classify"
      [] r = "end" -> "END"

\* Variant: a retry of reason goes through fetch_context again.
reason_route_refetch(r) ==
    CASE r = "done" -> "END"
      [] r = "retry" -> "fetch_context"

\* The conditional edges of "reason".
reason_route(r) ==
    CASE r = "done" -> "END"
      [] r = "retry" -> "reason"

\* The runner: a next node is run only while supersteps remain; otherwise
\* ainvoke raises GraphRecursionError.
NextNode(node, s) ==
    IF node # "END" /\ s >= RecursionLimit THEN "RAISED" ELSE node

----------------------------------------------------------------------------
(* The event-emitting variant *)

\* An event of runner.astream_events.
RunnerEvent(event, name, data) == [event |-> event, name |-> name, data |-> data]

\* The class of the model ModelFactory.get_fast ("flash") or get_pro ("pro")
\* builds: both come from _get_base_config.
ModelName(model) == "ChatGoogleGenerativeAI"

\* The chunks a model call streams: the text it returns, none when it raises.
ModelStream(model, resp) ==
    IF resp.kind = "raise" THEN <<>>
    ELSE <<RunnerEvent("on_chat_model_stream", ModelName(model), resp.kind)>>

\* The end of a node and, when the graph ends with it, the end of the graph.
EndEvents(node, next, st) ==
    <<RunnerEvent("on_chain_end", node, st)>>
        \o (IF next = "END" THEN <<RunnerEvent("on_chain_end", "LangGraph", st)>>
            ELSE <<>>)

\* The runner's events of one execution of a node that calls a model.
NodeEvents(node, model, resp, next, st) ==
    <<RunnerEvent("on_chain_start", node, st)>>
        \o ModelStream(model, resp) \o EndEvents(node, next, st)

\* Variant: the end of any chain is taken for the end of the graph.
astream_yield_any_end(ev) ==
    IF ev.event = "on_chain_start" /\ ev.name \in {"classify", "fetch_context", "reason"}
    THEN <<[type |-> "node_start", node |-> ev.name]>>
    ELSE IF ev.event = "on_chat_model_stream" /\ ev.name = "ChatGoogleGenerativeAI"
    THEN IF ev.data # "" THEN <<[type |-> "token", content |-> ev.data]>> ELSE <<>>
    ELSE IF ev.event = "on_chain_end"
    THEN <<[type |-> "final_state", output |-> ev.data]>>
    ELSE <<>>

\* The body of astream's loop: what it yields for one event of the runner.
astream_yield(ev) ==
    IF ev.event = "on_chain_start" /\ ev.name \in {"classify", "fetch_context", "reason"}
    THEN <<[type |-> "node_start", node |-> ev.name]>>
    ELSE IF ev.event = "on_chat_model_stream" /\ ev.name = "ChatGoogleGenerativeAI"
    THEN IF ev.data # "" THEN <<[type |-> "token", content |-> ev.data]>> ELSE <<>>
    ELSE IF ev.event = "on_chain_end" /\ ev.name = "LangGraph"
    THEN <<[type |-> "final_state", output |-> ev.data]>>
    ELSE <<>>

\* SchedulerAgent.astream over a sequence of the runner's events.
RECURSIVE astream(_)
astream(evs) ==
    IF evs = <<>> THEN <<>> ELSE astream_yield(Head(evs)) \o astream(Tail(evs))

\* What the caller receives: only generate_commute_plan_stream runs the
\* agent through astream.
Yielded(evs) == IF caller = "stream" THEN astream(evs) ELSE <<>>

----------------------------------------------------------------------------
(* Initial states *)

\* A coroutine of node_fetch_context: its status and, once done, its result.
Task(status, result) == [status |-> status, result |-> result]

\* The future of asyncio.gather: its status and, once failed, its exception.
Future(status, exc) == [status |-> status, exc |-> exc]

\* SchedulerState(...) as built by generate_commute_plan.
ApiState ==
    [raw_query |-> "I need to get to JFK for flight BA112",
     user_context |-> None, traffic_data |-> None, flight_data |-> None,
     plan |-> None, error_log |-> <<>>, retry_count |-> 0,
     execution_trace |-> <<>>]

\* SchedulerState(...) as built by run_async_agent.
WorkerState ==
    [raw_query |-> "BACKGROUND_POLL",
     user_context |-> SuppliedContext, traffic_data |-> None,
     flight_data |-> None, plan |-> None, error_log |-> <<>>,
     retry_count |-> 0, execution_trace |-> <<>>]

Init ==
    /\ caller \in {"api", "stream", "worker"}
    /\ state = IF caller = "worker" THEN WorkerState ELSE ApiState
    /\ pc = "classify"
    /\ step = 0
    /\ t_task = Task("idle", None)
    /\ f_task = Task("idle", None)
    /\ gather = Future("idle", "")
    /\ hist = <<>>
    /\ lookups = [traffic |-> 0, flight |-> 0]
    /\ events = Yielded(<<RunnerEvent("on_chain_start", "LangGraph", state)>>)
    /\ runs = <<>>
    /\ response = None
    /\ parse = None
    /\ metrics = None
    /\ handler = None

\* One record of the history: the node, how its execution ended, and what
\* it started with (retry_count, the snapshots, the feedback and, for
\* reason, the context formatted into the prompt).
Event(node, outcome, st, feedback) ==
    [node |-> node, outcome |-> outcome, rc |-> st.retry_count,
     feedback |-> feedback,
     traffic_data |-> st.traffic_data, flight_data |-> st.flight_data,
     context |-> IF node = "reason" THEN reason_context(st) ELSE None]

----------------------------------------------------------------------------
(* Actions *)

\* One execution of the classify node and of its conditional edge.
Classify(resp) ==
    /\ pc = "classify"
    /\ state' = ApplyUpdate(state, node_classify(state, resp))
    /\ step' = step + 1
    /\ pc' = NextNode(classify_route(edge_check_classification(state')), step')
    /\ hist' = Append(hist, Event("classify", AttemptError(resp, "UserContext"),
                                  state, classify_feedback(state)))
    /\ events' = events \o Yielded(NodeEvents("classify", "flash", resp, pc', state'))
    /\ UNCHANGED <<metrics, handler, parse, response, runs, caller, t_task, f_task, gather, lookups>>

\* node_fetch_context up to its await: ctx is read outside the try, then
\* the two lookups are started under asyncio.gather and wait_for.
FetchStart ==
    /\ pc = "fetch_context"
    /\ step' = step + 1
    /\ IF Truthy(state.user_context)
       THEN /\ pc' = "fetch_wait"
            /\ t_task' = Task("running", None)
            /\ f_task' = Task("running", None)
            /\ gather' = Future("pending", "")
            /\ lookups' = [traffic |-> lookups.traffic + 1,
                           flight |-> lookups.flight + 1]
       ELSE /\ pc' = "RAISED"
            /\ UNCHANGED <<t_task, f_task, gather, lookups>>
    /\ events' = events \o Yielded(<<RunnerEvent("on_chain_start", "fetch_context", state)>>)
    /\ UNCHANGED <<metrics, handler, parse, response, runs, caller, state, hist>>

\* The gather future after a child finished: the first exception of a child
\* completes it at once, the last result completes it with the results.
GatherAfter(t, f, e) ==
    IF gather.status # "pending" THEN gather
    ELSE IF e # "" THEN Future("exception", e)
    ELSE IF t.status = "done" /\ f.status = "done" THEN Future("result", "")
    ELSE gather

\* TrafficClient.get_travel_time returns.
TrafficReturn(v) ==
    /\ t_task.status = "running"
    /\ t_task' = Task("done", v)
    /\ gather' = GatherAfter(t_task', f_task, "")
    /\ UNCHANGED <<metrics, handler, parse, response, runs, caller, state, pc, step, f_task, hist, lookups, events>>

\* TrafficClient.get_travel_time raises.
TrafficRaise ==
    /\ t_task.status = "running"
    /\ t_task' = Task("failed", None)
    /\ gather' = GatherAfter(t_task', f_task, "traffic: API Down")
    /\ UNCHANGED <<metrics, handler, parse, response, runs, caller, state, pc, step, f_task, hist, lookups, events>>

\* FlightClient.get_status returns.
FlightReturn(v) ==
    /\ f_task.status = "running"
    /\ f_task' = Task("done", v)
    /\ gather' = GatherAfter(t_task, f_task', "")
    /\ UNCHANGED <<metrics, handler, parse, response, runs, caller, state, pc, step, t_task, hist, lookups, events>>

\* FlightClient.get_status raises.
FlightRaise ==
    /\ f_task.status = "running"
    /\ f_task' = Task("failed", None)
    /\ gather' = GatherAfter(t_task, f_task', "flight: not configured")
    /\ UNCHANGED <<metrics, handler, parse, response, runs, caller, state, pc, step, t_task, hist, lookups, events>>

\* Variant: the timeout leaves the coroutines of the gather running.
Cancelled_detached(task) == task

\* A child of a cancelled gather: a running coroutine is cancelled.
Cancelled(task) ==
    IF task.status = "running" THEN Task("cancelled", None) ELSE task

\* Variant: the results of the lookups that did finish are kept when the
\* gather fails.
fetch_outcome_partial(st, g, t, f) ==
    IF g.status = "result"
    THEN [traffic_data |-> t.result, flight_data |-> f.result]
    ELSE [traffic_data |-> t.result, flight_data |-> f.result,
          error_log |-> <<ToolFailure(g.exc)>>]

\* What the awaited wait_for gives node_fetch_context: the update it returns.
fetch_outcome(st, g, t, f) ==
    IF g.status = "result" THEN fetch_return(t.result, f.result)
    ELSE fetch_except(st, g.exc)

\* The 10 s of wait_for elapse while the gather is pending: the gather and
\* its running children are cancelled, TimeoutError (str "") is raised into
\* node_fetch_context, which returns; then the edge to "reason".
Deadline ==
    /\ pc = "fetch_wait"
    /\ gather.status = "pending"
    /\ gather' = Future("cancelled", "")
    /\ t_task' = Cancelled(t_task)
    /\ f_task' = Cancelled(f_task)
    /\ state' = ApplyUpdate(state, fetch_outcome(state, gather', t_task', f_task'))
    /\ pc' = NextNode(fetch_route(gather'), step)
    /\ hist' = Append(hist, Event("fetch_context", "timeout", state, None))
    /\ events' = events \o Yielded(EndEvents("fetch_context", pc', state'))
    /\ UNCHANGED <<metrics, handler, parse, response, runs, caller, step, lookups>>

\* The gather completed: node_fetch_context resumes with the results or with
\* the first exception, and returns; then the edge to "reason".
FetchJoin ==
    /\ pc = "fetch_wait"
    /\ gather.status \in {"result", "exception"}
    /\ state' = ApplyUpdate(state, fetch_outcome(state, gather, t_task, f_task))
    /\ pc' = NextNode(fetch_route(gather), step)
    /\ hist' = Append(hist, Event("fetch_context",
                                  IF gather.status = "result" THEN "ok" ELSE "failed",
                                  state, None))
    /\ events' = events \o Yielded(EndEvents("fetch_context", pc', state'))
    /\ UNCHANGED <<metrics, handler, parse, response, runs, caller, step, t_task, f_task, gather, lookups>>

\* One execution of the reason node and of its conditional edge.
Reason(resp) ==
    /\ pc = "reason"
    /\ state' = ApplyUpdate(state, node_reason(state, resp))
    /\ step' = step + 1
    /\ pc' = NextNode(reason_route(edge_check_reasoning(state')), step')
    /\ hist' = Append(hist, Event("reason", AttemptError(resp, "CommutePlan"),
                                  state, reason_feedback(state)))
    /\ events' = events \o Yielded(NodeEvents("reason", "pro", resp, pc', state'))
    /\ UNCHANGED <<metrics, handler, parse, response, runs, caller, t_task, f_task, gather, lookups>>

\* json.dumps over an event astream yielded: a node_start and a token event
\* hold strings; the output of final_state is the state dict, whose Intent,
\* snapshots and plan are model objects the encoder has no rule for.
json_dumps_raises(event) ==
    /\ event.type = "final_state"
    /\ \/ Truthy(event.output.user_context)
       \/ Truthy(event.output.traffic_data)
       \/ Truthy(event.output.flight_data)
       \/ Truthy(event.output.plan)

\* The text of a PlanResponse's error: its prefix and the error_log entry
\* formatted after it.
ErrorText(prefix, entry) == [prefix |-> prefix, entry |-> entry]

\* Variant: the error text carries the first entry of error_log.
generate_commute_plan_first_error(final_state) ==
    IF ~Truthy(final_state.plan)
    THEN [success |-> FALSE, plan |-> None,
          error |-> IF final_state.error_log # <<>>
                    THEN ErrorText("Agent Error: ", final_state.error_log[1])
                    ELSE ErrorText("Agent failed to generate a plan after retries.", None)]
    ELSE [success |-> TRUE, plan |-> final_state.plan, error |-> None]

\* generate_commute_plan after agent.run returned: the PlanResponse.
generate_commute_plan(final_state) ==
    IF ~Truthy(final_state.plan)
    THEN [success |-> FALSE, plan |-> None,
          error |-> IF final_state.error_log # <<>>
                    THEN ErrorText("Agent Error: ",
                                   final_state.error_log[Len(final_state.error_log)])
                    ELSE ErrorText("Agent failed to generate a plan after retries.", None)]
    ELSE [success |-> TRUE, plan |-> final_state.plan, error |-> None]

\* Variant: every plan triggers the notification.
monitor_commute_task_always_alert(result_state) ==
    IF ~Truthy(result_state.plan)
    THEN [status |-> "failed", reason |-> "no_plan"]
    ELSE [status |-> "alert_sent",
          message |-> result_state.plan.notification_message]

\* monitor_commute_task after run_async_agent returned: the task's result.
monitor_commute_task(result_state) ==
    IF ~Truthy(result_state.plan)
    THEN [status |-> "failed", reason |-> "no_plan"]
    ELSE IF result_state.plan.recommended_action
                \in {"nudge_leave_now", "nudge_book_uber"}
    THEN [status |-> "alert_sent",
          message |-> result_state.plan.notification_message]
    ELSE IF result_state.plan.recommended_action = "wait"
    THEN [status |-> "monitoring"]
    ELSE None

\* The caller's handler after the run: the routes answer (HTTP 500 or an
\* error event when the run raised), the task returns or asks for a retry.
Return ==
    /\ pc \in {"END", "RAISED"}
    /\ response = None
    /\ response' =
           IF caller = "api"
           THEN IF pc = "RAISED" THEN [status_code |-> 500]
                ELSE generate_commute_plan(state)
           ELSE IF caller = "worker"
           THEN IF pc = "RAISED" THEN [status |-> "retry"]
                ELSE monitor_commute_task(state)
           ELSE IF pc = "RAISED" \/ \E i \in DOMAIN events : json_dumps_raises(events[i])
                THEN [type |-> "error"]
                ELSE [type |-> "closed"]
    /\ UNCHANGED <<metrics, handler, parse, runs, caller, state, pc, step,
                   t_task, f_task, gather, hist, lookups, events>>

Next ==
    \/ \E resp \in Responses(ClassifyObjects) : Classify(resp)
    \/ FetchStart
    \/ \E v \in TrafficValues : TrafficReturn(v)
    \/ TrafficRaise
    \/ \E v \in FlightValues : FlightReturn(v)
    \/ FlightRaise
    \/ Deadline
    \/ FetchJoin
    \/ \E resp \in Responses(ReasonObjects) : Reason(resp)
    \/ Return

Spec == Init /\ [][Next]_vars

\* The runs in which the capabilities answer with valid objects and the
\* usage metadata of a message may be malformed.
NextUsage ==
    \/ \E resp \in UsageResponses({o \in ClassifyObjects : UserContextValid(o)}) :
           Classify(resp)
    \/ FetchStart
    \/ \E v \in TrafficValues : TrafficReturn(v)
    \/ TrafficRaise
    \/ \E v \in FlightValues : FlightReturn(v)
    \/ FlightRaise
    \/ Deadline
    \/ FetchJoin
    \/ \E resp \in UsageResponses({o \in ReasonObjects : CommutePlanValid(o)}) :
           Reason(resp)
    \/ Return

UsageSpec == Init /\ [][NextUsage]_vars

\* Every await of the run completes: a capability call returns or raises,
\* a lookup returns or raises, and the timer of wait_for fires.
FairSpec == Spec /\ WF_vars(Next)

----------------------------------------------------------------------------
(* Concurrent requests: every request of /v1/plan builds its own           *)
(* SchedulerAgent and its own initial state, and awaits agent.run; the     *)
(* event loop interleaves the runs at the awaits of their nodes.           *)

\* The requests in flight.
Requests == {1, 2}

\* request.user_id
RequestUser(r) == IF r = 1 THEN "u1" ELSE "u2"

\* request.query
Queries == {"I need to get to JFK for flight BA112", "BA112 from Brooklyn by 5pm"}

\* SchedulerState(...) as built by generate_commute_plan for a query.
initial_state(query) == [ApiState EXCEPT !.raw_query = query]

\* The answers of the collaborators in the concurrent runs.
RunClassifyResponses ==
    {resp \in Responses(ClassifyObjects) :
        resp.kind = "raise"
            \/ (resp.kind = "json" /\ resp.obj.user_id = "u9"
                    /\ resp.obj.flight_number = "UA123")}

RunReasonResponses ==
    {resp \in Responses(ReasonObjects) :
        resp.kind = "garbage"
            \/ (resp.kind = "json"
                    /\ resp.obj.recommended_action \in {"wait", "nudge_leave_now"})}

\* What the await of wait_for(gather) ends with: both results, the first
\* exception of a lookup, or the timeout.
RunFetchResponses ==
    {[g |-> Future("result", ""),
      t |-> Task("done", [status |-> "clear", duration_seconds |-> 600]),
      f |-> Task("done", [status |-> "on_time", estimated_departure |-> 40])],
     [g |-> Future("exception", "traffic: API Down"),
      t |-> Task("failed", None), f |-> Task("running", None)],
     [g |-> Future("cancelled", ""),
      t |-> Task("cancelled", None), f |-> Task("cancelled", None)]}

\* The update a node returns, given the answer its await got.
RunNode(node, st, resp) ==
    IF node = "classify" THEN node_classify(st, resp)
    ELSE IF node = "fetch_context" THEN fetch_outcome(st, resp.g, resp.t, resp.f)
    ELSE node_reason(st, resp)

\* The edge taken after a node.
RunRoute(node, st, resp) ==
    IF node = "classify" THEN classify_route(edge_check_classification(st))
    ELSE IF node = "fetch_context" THEN fetch_route(resp.g)
    ELSE reason_route(edge_check_reasoning(st))

\* Variant: the state is a module-level object that every run reads.
StateOf_shared(r) == runs[1].state

\* The state a node of request r is called with: the run's own channels.
StateOf(r) == runs[r].state

\* Variant: the state is a module-level object that every run writes.
Owner_shared(r) == 1

\* The run whose channels the update of a node of request r is applied to.
Owner(r) == r

\* Another request is between its first node and its end.
InProgress(o) == runs[o].step > 0 /\ runs[o].pc \notin {"END", "RAISED"}

InitRuns ==
    /\ caller = "api"
    /\ state = ApiState
    /\ pc = "classify"
    /\ step = 0
    /\ t_task = Task("idle", None)
    /\ f_task = Task("idle", None)
    /\ gather = Future("idle", "")
    /\ hist = <<>>
    /\ lookups = [traffic |-> 0, flight |-> 0]
    /\ events = <<>>
    /\ response = None
    /\ parse = None
    /\ metrics = None
    /\ handler = None
    /\ \E qs \in [Requests -> Queries] :
           runs = [r \in Requests |->
                      [user_id |-> RequestUser(r), query |-> qs[r],
                       state |-> initial_state(qs[r]), pc |-> "classify",
                       step |-> 0, script |-> <<>>, overlapped |-> FALSE]]

\* One node of the run of request r, and the edge after it.
RunStep(r, node, resp) ==
    LET st == StateOf(r)
        new == ApplyUpdate(st, RunNode(node, st, resp))
        s == runs[r].step + 1
    IN  /\ runs[r].pc = node
        /\ runs' = [runs EXCEPT
                       ![r].pc = NextNode(RunRoute(node, new, resp), s),
                       ![r].step = s,
                       ![r].script = Append(@, [node |-> node, resp |-> resp]),
                       ![r].overlapped =
                           @ \/ \E o \in Requests \ {r} : InProgress(o),
                       ![Owner(r)].state = new]
        /\ UNCHANGED <<caller, state, pc, step, t_task, f_task, gather, hist,
                       lookups, events, response, parse, metrics, handler>>

RunClassify(r, resp) == RunStep(r, "classify", resp)

RunFetchContext(r, resp) == RunStep(r, "fetch_context", resp)

RunReason(r, resp) == RunStep(r, "reason", resp)

NextRuns ==
    \/ \E r \in Requests, resp \in RunClassifyResponses : RunClassify(r, resp)
    \/ \E r \in Requests, resp \in RunFetchResponses : RunFetchContext(r, resp)
    \/ \E r \in Requests, resp \in RunReasonResponses : RunReason(r, resp)

RunsSpec == InitRuns /\ [][NextRuns]_vars

\* The state a run has after a script of answers when nothing else runs.
RECURSIVE Alone(_, _)
Alone(st, script) ==
    IF script = <<>> THEN st
    ELSE Alone(ApplyUpdate(st, RunNode(Head(script).node, st, Head(script).resp)),
               Tail(script))

----------------------------------------------------------------------------
(* Request accounting: the handlers of /v1/plan and /v1/plan/stream count  *)
(* every request in the metrics store, whose INCRBY is one atomic step of  *)
(* the store; the runs of the requests interleave as above.                *)

\* The counters of MetricKey the routes increment.
MetricKey == {"REQUESTS_TOTAL", "REQUESTS_SUCCESS", "REQUESTS_FAILED"}

\* MetricsService.increment: nothing happens when the store is disabled or
\* the call raises (delivered = FALSE), else the counter grows by one.
increment(m, key, delivered) ==
    IF delivered THEN [m EXCEPT ![key] = @ + 1] ELSE m

\* The two routes of the router.
Routes == {"plan", "stream"}

\* Variant: every request that did not raise counts as a success.
plan_counter_no_plan_check(final_state, raised) ==
    IF raised THEN "REQUESTS_FAILED" ELSE "REQUESTS_SUCCESS"

\* generate_commute_plan: the counter the request ends in.
plan_counter(final_state, raised) ==
    IF raised THEN "REQUESTS_FAILED"
    ELSE IF ~Truthy(final_state.plan) THEN "REQUESTS_FAILED"
    ELSE "REQUESTS_SUCCESS"

\* What astream yields last when the run did not raise.
last_events(final_state) ==
    astream(<<RunnerEvent("on_chain_end", "LangGraph", final_state)>>)

\* event_generator: the loop over astream raised, or it ended.
stream_raised(final_state, raised) ==
    raised \/ \E i \in DOMAIN last_events(final_state) :
                  json_dumps_raises(last_events(final_state)[i])

\* generate_commute_plan_stream: the counter the request ends in.
stream_counter(final_state, raised) ==
    IF stream_raised(final_state, raised) THEN "REQUESTS_FAILED"
    ELSE "REQUESTS_SUCCESS"

\* The answers of the collaborators in the counted runs.
PlanClassifyResponses == RunClassifyResponses

PlanFetchResponses == {resp \in RunFetchResponses : resp.g.status = "result"}

PlanReasonResponses ==
    {resp \in RunReasonResponses :
        resp.kind = "json" => resp.obj.recommended_action = "wait"}

ZeroCounters == [k \in MetricKey |-> 0]

InitPlan ==
    /\ caller = "api"
    /\ state = ApiState
    /\ pc = "classify"
    /\ step = 0
    /\ t_task = Task("idle", None)
    /\ f_task = Task("idle", None)
    /\ gather = Future("idle", "")
    /\ hist = <<>>
    /\ lookups = [traffic |-> 0, flight |-> 0]
    /\ events = <<>>
    /\ response = None
    /\ parse = None
    /\ metrics = ZeroCounters
    /\ runs = [r \in Requests |->
                  [user_id |-> RequestUser(r),
                   query |-> "I need to get to JFK for flight BA112",
                   state |-> initial_state("I need to get to JFK for flight BA112"),
                   pc |-> "classify", step |-> 0, script |-> <<>>,
                   overlapped |-> FALSE]]
    /\ \E routes \in [Requests -> Routes] :
           handler = [r \in Requests |->
                         [route |-> routes[r], at |-> "received",
                          calls |-> ZeroCounters,
                          dropped |-> ZeroCounters, response |-> None]]

\* The handler up to its await of the run: it counts the request.
Receive(r, delivered) ==
    /\ handler[r].at = "received"
    /\ metrics' = increment(metrics, "REQUESTS_TOTAL", delivered)
    /\ handler' = [handler EXCEPT
                      ![r].at = "running",
                      ![r].calls["REQUESTS_TOTAL"] = @ + 1,
                      ![r].dropped["REQUESTS_TOTAL"] = IF delivered THEN @ ELSE @ + 1]
    /\ UNCHANGED <<caller, state, pc, step, t_task, f_task, gather, hist,
                   lookups, events, runs, response, parse>>

\* The nodes of the run the handler awaits.
PlanClassify(r, resp) == handler[r].at = "running" /\ RunStep(r, "classify", resp)

PlanFetchContext(r, resp) == handler[r].at = "running" /\ RunStep(r, "fetch_context", resp)

PlanReason(r, resp) == handler[r].at = "running" /\ RunStep(r, "reason", resp)

\* The handler after the run: it counts the outcome and answers.
Respond(r, delivered) ==
    LET final_state == runs[r].state
        raised == runs[r].pc = "RAISED"
        key == IF handler[r].route = "plan" THEN plan_counter(final_state, raised)
               ELSE stream_counter(final_state, raised)
    IN  /\ handler[r].at = "running"
        /\ runs[r].pc \in {"END", "RAISED"}
        /\ metrics' = increment(metrics, key, delivered)
        /\ handler' = [handler EXCEPT
                          ![r].at = "done",
                          ![r].calls[key] = @ + 1,
                          ![r].dropped[key] = IF delivered THEN @ ELSE @ + 1,
                          ![r].response =
                              IF handler[r].route = "plan"
                              THEN IF raised THEN [status_code |-> 500]
                                   ELSE generate_commute_plan(final_state)
                              ELSE IF stream_raised(final_state, raised)
                                   THEN [type |-> "error"]
                                   ELSE [type |-> "closed"]]
        /\ UNCHANGED <<caller, state, pc, step, t_task, f_task, gather, hist,
                       lookups, events, runs, response, parse>>

NextPlan ==
    \/ \E r \in Requests, delivered \in BOOLEAN : Receive(r, delivered)
    \/ \E r \in Requests, resp \in PlanClassifyResponses : PlanClassify(r, resp)
    \/ \E r \in Requests, resp \in PlanFetchResponses : PlanFetchContext(r, resp)
    \/ \E r \in Requests, resp \in PlanReasonResponses : PlanReason(r, resp)
    \/ \E r \in Requests, delivered \in BOOLEAN : Respond(r, delivered)

PlanSpec == InitPlan /\ [][NextPlan]_vars

----------------------------------------------------------------------------
(* The Structured Output Parser over texts: the content of a message as a  *)
(* sequence of characters, where "v" stands for the text of the fields the *)
(* schema asks for and "x" for any other text.                             *)

Chars == {"{", "}", "v", "x"}

\* The longest generated text.
MaxLen == 4

Texts == UNION {[1..n -> Chars] : n \in 0..MaxLen}

\* re.search(r"\{.*\}", content, re.DOTALL): the leftmost position where
\* the pattern matches, and from there the longest match; <<>> for no match.
re_search(content) ==
    LET starts == {i \in 1..Len(content) :
                      /\ content[i] = "{"
                      /\ \E j \in (i + 1)..Len(content) : content[j] = "}"}
    IN  IF starts = {} THEN <<>>
        ELSE LET i == CHOOSE a \in starts : \A b \in starts : a <= b
                 ends == {j \in (i + 1)..Len(content) : content[j] = "}"}
             IN  <<i, CHOOSE a \in ends : \A b \in ends : b <= a>>

\* node_classify: json_str
classify_json_str(content) ==
    IF re_search(content) # <<>>
    THEN SubSeq(content, re_search(content)[1], re_search(content)[2])
    ELSE content

\* Variant: the pattern is matched lazily, up to the first closing brace.
reason_json_str_lazy(content) ==
    IF re_search(content) # <<>>
    THEN SubSeq(content, re_search(content)[1],
                CHOOSE j \in (re_search(content)[1] + 1)..Len(content) :
                    /\ content[j] = "}"
                    /\ \A k \in (re_search(content)[1] + 1)..(j - 1) :
                           content[k] # "}")
    ELSE content

\* node_reason: json_str
reason_json_str(content) ==
    IF re_search(content) # <<>>
    THEN SubSeq(content, re_search(content)[1], re_search(content)[2])
    ELSE content

\* What json.loads makes of a candidate for a node's schema: "{v}" is the
\* text of an object with the fields of the schema, "{}" of the empty
\* object, which the schema rejects, and anything else is no JSON.
Message(json_str, node) ==
    IF json_str = <<"{", "v", "}">>
    THEN [kind |-> "json", total_tokens |-> "int",
          obj |-> IF node = "classify"
                  THEN [user_id |-> "u9", origin |-> "A", destination |-> "B",
                        flight_number |-> "UA123"]
                  ELSE [recommended_action |-> "wait",
                        notification_message |-> "Leave now"]]
    ELSE IF json_str = <<"{", "}">>
    THEN [kind |-> "json", total_tokens |-> "int",
          obj |-> IF node = "classify"
                  THEN [user_id |-> Missing, origin |-> Missing,
                        destination |-> Missing, flight_number |-> Missing]
                  ELSE [recommended_action |-> Missing,
                        notification_message |-> Missing]]
    ELSE [kind |-> "garbage", total_tokens |-> "int", obj |-> None]

InitParser ==
    /\ caller = "api"
    /\ state = ApiState
    /\ pc = "classify"
    /\ step = 0
    /\ t_task = Task("idle", None)
    /\ f_task = Task("idle", None)
    /\ gather = Future("idle", "")
    /\ hist = <<>>
    /\ lookups = [traffic |-> 0, flight |-> 0]
    /\ events = <<>>
    /\ runs = <<>>
    /\ response = None
    /\ metrics = None
    /\ handler = None
    /\ \E node \in {"classify", "reason"}, content \in Texts :
           parse = [node |-> node, content |-> content, at |-> "content",
                    json_str |-> <<>>, update |-> None]

\* The node picks the candidate out of the content of the message.
SelectCandidate ==
    /\ parse.at = "content"
    /\ parse' = [parse EXCEPT
                    !.json_str = IF parse.node = "classify"
                                 THEN classify_json_str(parse.content)
                                 ELSE reason_json_str(parse.content),
                    !.at = "json_str"]
    /\ UNCHANGED <<caller, state, pc, step, t_task, f_task, gather, hist,
                   lookups, events, runs, response, metrics, handler>>

\* The node decodes and validates the candidate, and returns its update.
DecodeValidate ==
    /\ parse.at = "json_str"
    /\ parse' = [parse EXCEPT
                    !.update = RunNode(parse.node, state,
                                       Message(parse.json_str, parse.node)),
                    !.at = "returned"]
    /\ UNCHANGED <<caller, state, pc, step, t_task, f_task, gather, hist,
                   lookups, events, runs, response, metrics, handler>>

NextParser == SelectCandidate \/ DecodeValidate

ParserSpec == InitParser /\ [][NextParser]_vars

----------------------------------------------------------------------------
(* Reading the history *)

\* The executions of one node, in order.
Runs(node) == SelectSeq(hist, LAMBDA ev : ev.node = node)

\* The outcomes of the executions of one node, in order.
Outcomes(node) == [i \in 1..Len(Runs(node)) |-> Runs(node)[i].outcome]

\* The number of failed executions of one node.
FailCount(node) ==
    Len(SelectSeq(hist, LAMBDA ev : ev.node = node /\ ev.outcome # "ok"))

\* s is a prefix of t.
IsPrefix(s, t) == Len(s) <= Len(t) /\ SubSeq(t, 1, Len(s)) = s

\* The entries of error_log written by node_fetch_context.
ToolFailures ==
    SelectSeq(state.error_log, LAMBDA en : en.prefix = "Tool Failure: ")

\* node_fetch_context has returned.
FetchCommitted == Len(Runs("fetch_context")) > 0

----------------------------------------------------------------------------
(* Claims *)

\* C1: every run terminates: whatever the capability and provider calls
\* return or raise, the run eventually reaches END; it does not stay in
\* classify or reason forever.  (Checked under FairSpec.)
C1_RunTerminates == <>(pc = "END")

\* The longest run: three failed classify attempts, a success, the fetch,
\* and four failed reason attempts.
C1_Witness ==
    /\ pc = "END"
    /\ FailCount("classify") = ClassifyCeiling
    /\ FailCount("reason") = ReasonCeiling + 1

\* C2: no exception leaves the run: a failure inside classify,
\* fetch_context or reason becomes an error_log entry and the run returns.
C2_NoExceptionEscapes ==
    /\ pc # "RAISED"
    /\ Len(state.error_log) =
           FailCount("classify") + FailCount("fetch_context") + FailCount("reason")

\* A finished run in which each of the three stages failed at least once.
C2_Witness ==
    /\ pc = "END"
    /\ FailCount("classify") > 0
    /\ FailCount("fetch_context") > 0
    /\ FailCount("reason") > 0
    /\ Len(state.error_log) >= 3

\* C3: error_log is append-only: every step leaves the old error_log as a
\* prefix of the new one, successful attempts included.
C3_ErrorLogAppendOnly ==
    [][IsPrefix(state.error_log, state'.error_log)]_vars

\* A successful reason attempt after failures of different kinds kept the log.
C3_Witness ==
    /\ state.plan # None
    /\ Len(state.error_log) >= 2
    /\ state.error_log[1] # state.error_log[2]

\* The last execution of reason succeeded.
LastReasonOk ==
    /\ Len(Runs("reason")) > 0
    /\ Runs("reason")[Len(Runs("reason"))].outcome = "ok"

\* C4: a plan is present iff the run reached terminal success: absent in
\* every non-terminal state, and at END present exactly when the last
\* reason attempt succeeded.
C4_PlanIffTerminalSuccess ==
    /\ pc # "END" => state.plan = None
    /\ pc = "END" => (state.plan # None <=> LastReasonOk)

\* Terminal success after a failed reason attempt.
C4_Witness ==
    /\ pc = "END"
    /\ state.plan # None
    /\ FailCount("reason") > 0

\* Every classify attempt so far failed, and the ceiling is exceeded.
ClassifyExhausted ==
    /\ FailCount("classify") = Len(Runs("classify"))
    /\ FailCount("classify") > ClassifyCeiling

\* C5: if every classify attempt fails until the ceiling is exceeded, the
\* run aborts: it is at END without Intent and without Plan, and neither
\* fetch_context (no lookup) nor reason was executed.
C5_ClassifyAbort ==
    ClassifyExhausted =>
        /\ pc = "END"
        /\ state.user_context = None
        /\ state.plan = None
        /\ Len(Runs("fetch_context")) = 0
        /\ Len(Runs("reason")) = 0
        /\ t_task.status = "idle"
        /\ f_task.status = "idle"

\* The abort: four failed classify attempts.
C5_Witness ==
    /\ pc = "END"
    /\ FailCount("classify") = ClassifyCeiling + 1
    /\ Len(hist) = ClassifyCeiling + 1


\* C6: self-healing of classify: if its first attempt yields unparseable
\* text and its second a valid object, and no later stage fails, then
\* Intent is set, retry_count is 0 and error_log has exactly one entry, from
\* the second attempt on and so in the final state.
C6_ClassifySelfHealing ==
    (/\ Outcomes("classify") = <<"JSONDecodeError", "ok">>
     /\ FailCount("fetch_context") = 0
     /\ FailCount("reason") = 0)
    => /\ state.user_context # None
       /\ state.retry_count = 0
       /\ Len(state.error_log) = 1

\* The run of the claim, finished with a plan.
C6_Witness ==
    /\ pc = "END"
    /\ Outcomes("classify") = <<"JSONDecodeError", "ok">>
    /\ Outcomes("fetch_context") = <<"ok">>
    /\ Outcomes("reason") = <<"ok">>

\* C7: if reason fails 4 consecutive times, the run terminates with Plan
\* absent and at least 4 entries in error_log.
C7_ReasonExhausted ==
    FailCount("reason") >= ReasonCeiling + 1 =>
        /\ pc = "END"
        /\ state.plan = None
        /\ Len(state.error_log) >= ReasonCeiling + 1

\* Four failed reason attempts after a clean classify and fetch.
C7_Witness ==
    /\ pc = "END"
    /\ FailCount("reason") = ReasonCeiling + 1
    /\ Len(state.error_log) = ReasonCeiling + 1

\* C8: graceful degradation: if the traffic provider raises during
\* fetch_context, traffic stays absent, the run does not abort (no
\* exception, reason is executed), error_log holds a 'Tool Failure:' entry
\* once fetch_context has returned, fetch_context leaves retry_count as it
\* found it, and a valid reason output yields a Plan.
C8_GracefulDegradation ==
    t_task.status = "failed" =>
        /\ state.traffic_data = None
        /\ pc # "RAISED"
        /\ FetchCommitted => Len(ToolFailures) > 0
        /\ pc = "END" => Len(Runs("reason")) > 0
        /\ Len(Runs("reason")) > 0 =>
               Runs("reason")[1].rc = Runs("fetch_context")[1].rc
        /\ LastReasonOk => state.plan # None

\* The traffic lookup raised, the flight lookup returned, and the run ended
\* with a plan.
C8_Witness ==
    /\ pc = "END"
    /\ t_task.status = "failed"
    /\ f_task.status = "done"
    /\ gather = Future("exception", "traffic: API Down")
    /\ state.plan # None

\* Exactly one of the two lookups failed and the other returned, both
\* before node_fetch_context returned.
OneLookupFailed ==
    /\ FetchCommitted
    /\ Runs("fetch_context")[1].outcome = "failed"
    /\ \/ t_task.status = "failed" /\ f_task.status = "done"
       \/ t_task.status = "done" /\ f_task.status = "failed"

\* C9 as stated: when exactly one lookup fails, the snapshot of the other is
\* stored and only the failed lookup's field is absent.
C9_PartialResultsStored ==
    OneLookupFailed =>
        /\ t_task.status = "done" => state.traffic_data = t_task.result
        /\ f_task.status = "done" => state.flight_data = f_task.result

\* C9 as amended: when exactly one lookup fails, fetch_context stores
\* neither snapshot (the result of the lookup that returned is dropped) and
\* appends exactly one 'Tool Failure:' entry.
C9_NoPartialResults ==
    OneLookupFailed =>
        /\ state.traffic_data = None
        /\ state.flight_data = None
        /\ Len(ToolFailures) = 1

\* The flight lookup returned, then the traffic lookup raised, and
\* node_fetch_context has returned.
C9_Witness ==
    /\ pc = "reason"
    /\ t_task.status = "failed"
    /\ f_task.status = "done"
    /\ gather.status = "exception"

\* C10: retry_count is scoped per stage: in every run, from the API or from
\* the worker, retry_count is 0 when reason makes its first attempt.
C10_RetryCountScoped ==
    Len(Runs("reason")) > 0 => Runs("reason")[1].rc = 0


\* C11: retries are bounded by the ceiling of 3: classify is attempted at
\* most 4 times, reason at most 4 times, and retry_count never exceeds 4.
C11_RetriesBounded ==
    /\ Len(Runs("classify")) <= ClassifyCeiling + 1
    /\ Len(Runs("reason")) <= ReasonCeiling + 1
    /\ state.retry_count <= ClassifyCeiling + 1
    /\ state.retry_count <= ReasonCeiling + 1

\* Both stages used all their attempts in one run.
C11_Witness ==
    /\ Len(Runs("classify")) = ClassifyCeiling + 1
    /\ Len(Runs("reason")) = ReasonCeiling + 1
    /\ state.retry_count = ReasonCeiling + 1

\* Some execution of classify produced an Intent.
ClassifyProducedIntent ==
    \E i \in 1..Len(hist) : hist[i].node = "classify" /\ hist[i].outcome = "ok"

\* C12 as stated: each lookup is issued exactly once in a run whose classify
\* produced an Intent and zero times otherwise.
C12_LookupsIffIntentProduced ==
    pc = "END" =>
        /\ lookups.traffic = (IF ClassifyProducedIntent THEN 1 ELSE 0)
        /\ lookups.flight = (IF ClassifyProducedIntent THEN 1 ELSE 0)

\* C12 as amended: fetch_context runs at most once per run; each lookup is
\* issued exactly once in a run that holds an Intent after classify
\* (extracted, or supplied by the worker), zero times otherwise, and not
\* again when reason retries.
C12_FetchOncePerRun ==
    /\ lookups.traffic = lookups.flight
    /\ lookups.traffic <= 1
    /\ Len(Runs("fetch_context")) <= lookups.traffic
    /\ pc = "END" => (lookups.traffic = 1 <=> Truthy(state.user_context))
    /\ Len(Runs("reason")) > 0 => lookups.traffic = 1

\* A worker run whose classify failed: the lookups were issued once, and
\* reason retried without another fetch.
C12_Witness ==
    /\ pc = "END"
    /\ caller = "worker"
    /\ ~ClassifyProducedIntent
    /\ lookups = [traffic |-> 1, flight |-> 1]
    /\ FailCount("reason") >= 2

\* The place of a node in the order of the stages.
StageRank(node) ==
    CASE node = "classify" -> 1
      [] node = "fetch_context" -> 2
      [] node = "reason" -> 3

\* C13: stage ordering: whenever fetch_context or reason is executing the
\* Intent is present, and the executions of a run are classify+, then
\* optionally one fetch_context followed by reason+.
C13_StageOrdering ==
    /\ pc \in {"fetch_context", "fetch_wait", "reason"} => Truthy(state.user_context)
    /\ \A i, j \in 1..Len(hist) :
           i < j => StageRank(hist[i].node) <= StageRank(hist[j].node)
    /\ Len(hist) > 0 => hist[1].node = "classify"
    /\ Len(Runs("fetch_context")) <= 1
    /\ Len(Runs("reason")) > 0 => Len(Runs("fetch_context")) = 1
    /\ pc \in {"fetch_context", "fetch_wait"} => Len(Runs("reason")) = 0

\* A retry of reason after a retried classify and a fetch.
C13_Witness ==
    /\ pc = "reason"
    /\ caller = "api"
    /\ FailCount("classify") > 0
    /\ Len(Runs("fetch_context")) = 1
    /\ Len(Runs("reason")) = 2

\* C14: user_id backfill: if the extracted record omits user_id but is
\* otherwise valid, the classify attempt succeeds and the stored Intent's
\* user_id is the user_id of the request.
C14_UserIdBackfill ==
    [][\A resp \in Responses(ClassifyObjects) :
          (/\ resp.kind = "json"
           /\ resp.obj.user_id = Missing
           /\ UserContextValid([resp.obj EXCEPT !.user_id = RequestUserId])
           /\ Classify(resp))
          => /\ Truthy(state'.user_context)
             /\ state'.user_context.user_id = RequestUserId
             /\ state'.retry_count = 0]_vars

\* The execution a step added to the history.
Added == hist'[Len(hist')]

\* A step that is an attempt of classify or of reason.
IsAttempt == Len(hist') = Len(hist) + 1 /\ Added.node \in {"classify", "reason"}

\* The output field of a stage.
Output(st, node) == IF node = "classify" THEN st.user_context ELSE st.plan

\* What C15 says of the log and the counter.
AttemptBookkeeping ==
    IF Added.outcome # "ok"
    THEN /\ Len(state'.error_log) = Len(state.error_log) + 1
         /\ state'.retry_count = state.retry_count + 1
    ELSE /\ state'.error_log = state.error_log
         /\ state'.retry_count = 0
         /\ Truthy(Output(state', Added.node))

\* C15 as stated: a failed attempt of classify or reason appends one entry,
\* adds 1 to retry_count and leaves the stage's output absent; a successful
\* one appends nothing and sets retry_count to 0.
C15_FailedAttemptLeavesOutputAbsent ==
    [][IsAttempt =>
         /\ AttemptBookkeeping
         /\ Added.outcome # "ok" => Output(state', Added.node) = None]_vars

\* C15 as amended: as stated, but a failed attempt leaves the stage's output
\* as it was: absent, unless the Intent was supplied by the worker.
C15_FailedAttemptKeepsOutput ==
    [][IsAttempt =>
         /\ AttemptBookkeeping
         /\ Added.outcome # "ok" =>
                /\ Output(state', Added.node) = Output(state, Added.node)
                /\ Output(state, Added.node) # None =>
                       caller = "worker" /\ Added.node = "classify"]_vars

\* A worker run whose classify failed and whose reason failed and then
\* succeeded.
C15_Witness ==
    /\ caller = "worker"
    /\ FailCount("classify") = 1
    /\ state.user_context = SuppliedContext
    /\ FailCount("reason") = 1
    /\ Truthy(state.plan)


\* The yielded events of one type.
EventsOf(type) == SelectSeq(events, LAMBDA ev : ev.type = type)

\* C16: in the event-emitting variant, token events are emitted only while
\* reason's generation call is in progress: none before the stage-start
\* event of reason, in particular none during classify's generation call.
C16_TokensOnlyDuringReason ==
    \A i \in 1..Len(events) :
        events[i].type = "token" =>
            \E j \in 1..(i - 1) :
                events[j] = [type |-> "node_start", node |-> "reason"]

\* The nodes of the stage-start events, in the order they were yielded.
StartedNodes ==
    [i \in 1..Len(EventsOf("node_start")) |-> EventsOf("node_start")[i].node]

\* The nodes whose execution has started, in the order of execution.
ExecutedNodes ==
    [i \in 1..Len(hist) |-> hist[i].node]
        \o (IF pc = "fetch_wait" THEN <<"fetch_context">> ELSE <<>>)

C20_PlanObeysDropDeadRule ==
    (pc = "END" /\ Truthy(state.plan)) =>
        state.plan.recommended_action = REASONER_SYSTEM(reason_context(state))

\* C20 (amended): the Plan stored at terminal success is an object of the
\* Reasoning capability that passed the schema, so its action is one of
\* wait, nudge_leave_now and nudge_book_uber; the rule is not enforced.
C20_PlanIsValidatedAnswer ==
    (pc = "END" /\ Truthy(state.plan)) =>
        /\ state.plan \in ReasonObjects
        /\ state.plan.recommended_action \in DecisionAction
        /\ LastReasonOk

\* Departure in 40 min, 10 min of travel, and the stored Plan says wait.
C20_Witness ==
    /\ pc = "END"
    /\ Truthy(state.plan)
    /\ Truthy(state.flight_data)
    /\ state.flight_data.estimated_departure = 40
    /\ state.traffic_data.duration_seconds = 600
    /\ REASONER_SYSTEM(reason_context(state)) = "nudge_leave_now"
    /\ state.plan.recommended_action = "wait"


C21_ResponseReportsOutcome ==
    (caller = "api" /\ response # None) =>
        /\ response.success <=> Truthy(state.plan)
        /\ response.success => response.plan = state.plan
        /\ ~response.success =>
               /\ response.plan = None
               /\ state.error_log # <<>> =>
                      response.error = ErrorText("Agent Error: ",
                                         state.error_log[Len(state.error_log)])
               /\ response.error.entry = None => state.error_log = <<>>

\* A failed response after a failed fetch and four failed reason attempts:
\* the first and the last entry of error_log differ.
C21_Witness ==
    /\ caller = "api"
    /\ response # None
    /\ ~response.success
    /\ Len(state.error_log) > 1
    /\ state.error_log[1] # state.error_log[Len(state.error_log)]
    /\ response.error.entry = state.error_log[Len(state.error_log)]

\* C22: the monitor task reports failed (no_plan) iff the final state has
\* no Plan, alert_sent with the Plan's notification_message iff the action
\* is nudge_leave_now or nudge_book_uber, monitoring iff the action is
\* wait, and asks for a retry only when the run raised.
C22_MonitorTaskResult ==
    (caller = "worker" /\ response # None) =>
        /\ response.status = "retry" <=> pc = "RAISED"
        /\ pc # "RAISED" =>
               /\ response = [status |-> "failed", reason |-> "no_plan"]
                      <=> ~Truthy(state.plan)
               /\ response.status = "alert_sent"
                      <=> /\ Truthy(state.plan)
                          /\ state.plan.recommended_action
                                 \in {"nudge_leave_now", "nudge_book_uber"}
               /\ response.status = "alert_sent"
                      => response.message = state.plan.notification_message
               /\ response.status = "monitoring"
                      <=> /\ Truthy(state.plan)
                          /\ state.plan.recommended_action = "wait"

\* The task returned monitoring for a plan that says wait.
C22_Witness ==
    /\ caller = "worker"
    /\ response = [status |-> "monitoring"]
    /\ Truthy(state.plan)
    /\ state.plan.recommended_action = "wait"


\* C23: a failure of the metrics side-channel never affects the outcome:
\* an attempt of Classify or Reason whose answer decodes and validates
\* succeeds (output stored, nothing appended to error_log, retry_count 0)
\* whatever happens while its token usage is recorded.
C23_MetricsNeverAffectOutcome ==
    [][/\ \A resp \in UsageResponses(ClassifyObjects) :
              (ParseError(resp, "UserContext") = "ok" /\ Classify(resp)) =>
                  /\ Truthy(state'.user_context)
                  /\ state'.error_log = state.error_log
                  /\ state'.retry_count = 0
       /\ \A resp \in UsageResponses(ReasonObjects) :
              (ParseError(resp, "CommutePlan") = "ok" /\ Reason(resp)) =>
                  /\ Truthy(state'.plan)
                  /\ state'.error_log = state.error_log
                  /\ state'.retry_count = 0]_vars


\* C24: when the deadline of fetch_context elapses before both lookups have
\* completed, the outstanding lookups are cancelled together, neither
\* snapshot is stored, exactly one entry is appended to error_log, and the
\* run proceeds to reason.
C24_DeadlineCancelsBoth ==
    [][(pc = "fetch_wait" /\ gather.status = "pending"
            /\ gather'.status = "cancelled") =>
           /\ t_task.status = "running" => t_task'.status = "cancelled"
           /\ f_task.status = "running" => f_task'.status = "cancelled"
           /\ t_task'.status # "running" /\ f_task'.status # "running"
           /\ state'.traffic_data = None /\ state'.flight_data = None
           /\ state'.error_log = state.error_log \o <<ToolFailure("")>>
           /\ pc' = "reason"]_vars

\* The deadline elapsed after the traffic lookup had returned: the flight
\* lookup was cancelled, nothing was stored and reason is next.
C24_Witness ==
    /\ pc = "reason"
    /\ gather.status = "cancelled"
    /\ t_task.status = "done"
    /\ f_task.status = "cancelled"
    /\ state.traffic_data = None
    /\ Len(ToolFailures) = 1


\* C25: the transitions are those of the transition table. After classify:
\* fetch_context iff an Intent is present (before the ceiling is looked
\* at), otherwise END iff retry_count > 3, otherwise classify again.
\* fetch_context always goes to reason. After reason: END iff a Plan is
\* present or retry_count > 3, otherwise reason again. Nothing else.
C25_TransitionTable ==
    [][/\ pc = "classify" =>
              /\ pc' \in {"classify", "fetch_context", "END"}
              /\ step' # step =>
                     /\ pc' = "fetch_context" <=> Truthy(state'.user_context)
                     /\ pc' = "END" <=> (/\ ~Truthy(state'.user_context)
                                         /\ state'.retry_count > 3)
       /\ pc = "fetch_context" => pc' \in {"fetch_context", "fetch_wait"}
       /\ pc = "fetch_wait" => pc' \in {"fetch_wait", "reason"}
       /\ pc = "reason" =>
              /\ pc' \in {"reason", "END"}
              /\ step' # step =>
                     (pc' = "END" <=> (\/ Truthy(state'.plan)
                                       \/ state'.retry_count > 3))
       /\ pc = "END" => pc' = "END"
       /\ pc # "RAISED"]_vars

\* A finished run that took Retry and Continue after classify, the edge to
\* reason after a failed fetch, and Retry and Done after reason.
C25_Witness ==
    /\ pc = "END"
    /\ FailCount("classify") = 2
    /\ Len(ToolFailures) = 1
    /\ FailCount("reason") = 1
    /\ Truthy(state.plan)
    /\ response # None


\* The failed attempts of the stage of hist[i] that came before hist[i].
EarlierFailures(i) ==
    {j \in 1..(i - 1) : hist[j].node = hist[i].node /\ hist[j].outcome # "ok"}

\* C26: corrective feedback is injected into an attempt of classify or of
\* reason iff an earlier attempt of the same stage failed in this run, and
\* it is that stage's most recent error; the first attempt of reason never
\* receives an error of classify or of fetch_context.
C26_FeedbackFromOwnStage ==
    \A i \in 1..Len(hist) :
        hist[i].node \in {"classify", "reason"} =>
            /\ hist[i].feedback # None <=> EarlierFailures(i) # {}
            /\ EarlierFailures(i) # {} =>
                   LET j == CHOOSE k \in EarlierFailures(i) :
                                \A l \in EarlierFailures(i) : l <= k
                   IN  hist[i].feedback = Entry("", hist[j].outcome)


\* The candidate as the claim describes it: from the first "{" to the last
\* "}" when a "{" is followed later by a "}", the entire text otherwise.
BraceSpan(text) ==
    LET opens == {i \in 1..Len(text) : text[i] = "{"}
        closes == {j \in 1..Len(text) : text[j] = "}"}
    IN  IF \E i \in opens, j \in closes : i < j
        THEN SubSeq(text, CHOOSE a \in opens : \A b \in opens : a <= b,
                          CHOOSE a \in closes : \A b \in closes : b <= a)
        ELSE text

\* C27: for any generated text the candidate handed to the decoder is the
\* substring from the first "{" to the last "}" when the text has a "{"
\* followed later by a "}", the entire text otherwise, in classify and in
\* reason alike; a candidate that does not decode or validate makes the
\* attempt fail.
C27_CandidateSelection ==
    parse # None =>
        /\ parse.at # "content" => parse.json_str = BraceSpan(parse.content)
        /\ parse.at = "returned" =>
               IF parse.json_str = <<"{", "v", "}">>
               THEN "error_log" \notin DOMAIN parse.update
               ELSE /\ Len(parse.update.error_log) = 1
                    /\ parse.update.retry_count = 1
                    /\ DOMAIN parse.update = {"error_log", "retry_count"}

\* reason parsed a text with an object inside other text and braces after
\* it: the candidate runs to the last brace and the attempt failed.
C27_Witness ==
    /\ parse # None
    /\ parse.node = "reason"
    /\ parse.at = "returned"
    /\ parse.content = <<"{", "v", "}", "}">>
    /\ parse.json_str = parse.content
    /\ "error_log" \in DOMAIN parse.update


\* C28: the two lookups are joined before fetch_context completes: once
\* fetch_context has returned, and whenever reason runs, no lookup of the
\* run is still outstanding, also when one lookup failed before the other
\* finished.
C28_LookupsJoined ==
    FetchCommitted =>
        /\ t_task.status # "running"
        /\ f_task.status # "running"


\* C29: every attempt of reason uses the stored traffic and flight
\* snapshots when present and neutral defaults when absent (traffic clear
\* with duration 0, flight on_time departing now), and the defaults are
\* never written into the state: a snapshot absent when reason starts
\* stays absent.
C29_ReasonDefaults ==
    \A i \in 1..Len(hist) :
        hist[i].node = "reason" =>
            /\ IF hist[i].traffic_data # None
               THEN /\ hist[i].context.traffic_status = hist[i].traffic_data.status
                    /\ hist[i].context.traffic_duration
                           = hist[i].traffic_data.duration_seconds
               ELSE /\ hist[i].context.traffic_status = "clear"
                    /\ hist[i].context.traffic_duration = 0
                    /\ state.traffic_data = None
            /\ IF hist[i].flight_data # None
               THEN /\ hist[i].context.flight_status = hist[i].flight_data.status
                    /\ hist[i].context.flight_time
                           = hist[i].flight_data.estimated_departure
               ELSE /\ hist[i].context.flight_status = "on_time"
                    /\ hist[i].context.flight_time = 0
                    /\ state.flight_data = None

\* After a failed fetch reason ran twice with the defaults and stored a
\* plan; the snapshots are still absent at the end.
C29_Witness ==
    /\ pc = "END"
    /\ Len(ToolFailures) = 1
    /\ Len(Runs("reason")) = 2
    /\ Runs("reason")[2].context.traffic_status = "clear"
    /\ Runs("reason")[2].context.flight_time = 0
    /\ Truthy(state.plan)
    /\ state.traffic_data = None
    /\ state.flight_data = None


\* C30: frame conditions. classify never changes traffic, flight or plan;
\* fetch_context never changes the Intent, the plan or retry_count; reason
\* never changes the Intent, traffic or flight; an Intent stored by
\* classify is unchanged for the rest of the run; the raw query never
\* changes.
C30_StageFrames ==
    [][/\ pc = "classify" =>
              /\ state'.traffic_data = state.traffic_data
              /\ state'.flight_data = state.flight_data
              /\ state'.plan = state.plan
       /\ pc \in {"fetch_context", "fetch_wait"} =>
              /\ state'.user_context = state.user_context
              /\ state'.plan = state.plan
              /\ state'.retry_count = state.retry_count
       /\ pc = "reason" =>
              /\ state'.user_context = state.user_context
              /\ state'.traffic_data = state.traffic_data
              /\ state'.flight_data = state.flight_data
       /\ ClassifyProducedIntent => state'.user_context = state.user_context
       /\ state'.raw_query = state.raw_query]_vars

\* A finished worker run in which classify stored an Intent of its own,
\* the fetch stored both snapshots and reason stored a plan after a retry.
C30_Witness ==
    /\ pc = "END"
    /\ caller = "worker"
    /\ ClassifyProducedIntent
    /\ state.user_context # SuppliedContext
    /\ Truthy(state.traffic_data)
    /\ Truthy(state.flight_data)
    /\ FailCount("reason") = 1
    /\ Truthy(state.plan)
    /\ state.raw_query = "BACKGROUND_POLL"


\* The Intent schema: user_id, origin and destination are non-null strings
\* and flight_number matches the pattern.
SatisfiesIntentSchema(ctx) ==
    /\ ctx.user_id \notin {Missing, NoneStr}
    /\ ctx.origin \notin {Missing, NoneStr}
    /\ ctx.destination \notin {Missing, NoneStr}
    /\ ctx.flight_number \in {"UA123", "BA112", "UA1"}

\* C31: every Intent stored by classify satisfies the Intent schema and
\* every Plan stored by reason satisfies the Plan schema; no record that
\* fails validation is ever stored.
C31_StoredRecordsValid ==
    /\ ClassifyProducedIntent => SatisfiesIntentSchema(state.user_context)
    /\ Truthy(state.plan) => state.plan.recommended_action \in DecisionAction


\* C32: in a run started without snapshots, traffic and flight are both
\* present or both absent in every state: fetch_context stores both when
\* both lookups succeeded within the deadline and neither otherwise.
C32_SnapshotsTogether ==
    /\ Truthy(state.traffic_data) <=> Truthy(state.flight_data)
    /\ ~FetchCommitted => ~Truthy(state.traffic_data)
    /\ FetchCommitted =>
           IF Runs("fetch_context")[1].outcome = "ok"
           THEN /\ state.traffic_data = t_task.result
                /\ state.flight_data = f_task.result
                /\ t_task.status = "done" /\ f_task.status = "done"
           ELSE ~Truthy(state.traffic_data)

\* Both lookups returned, fetch_context stored both snapshots and reason
\* is next.
C32_Witness ==
    /\ pc = "reason"
    /\ FetchCommitted
    /\ Runs("fetch_context")[1].outcome = "ok"
    /\ state.traffic_data.status = "gridlock"
    /\ state.flight_data.status = "delayed"


\* C33: error accounting. In a run started with an empty error_log,
\* retry_count 0 and no Intent, len(error_log) is at every point the number
\* of failed classify attempts plus the number of failed reason attempts
\* plus 1 if fetch_context failed; retry_count equals len(error_log) while
\* classify runs, and the final error_log has at most 8 entries, exactly 4
\* after a classify abort.
C33_ErrorAccounting ==
    caller # "worker" =>
        /\ Len(state.error_log)
               = FailCount("classify") + FailCount("reason")
                     + (IF FetchCommitted /\ Runs("fetch_context")[1].outcome # "ok"
                        THEN 1 ELSE 0)
        /\ pc = "classify" => state.retry_count = Len(state.error_log)
        /\ pc = "END" =>
               /\ Len(state.error_log) <= 8
               /\ ~FetchCommitted =>
                      /\ Len(state.error_log) = 4
                      /\ state.retry_count = 4

\* The longest error_log: three failed classify attempts, a failed fetch
\* and four failed reason attempts.
C33_Witness ==
    /\ caller = "api"
    /\ pc = "END"
    /\ Len(state.error_log) = 8
    /\ FailCount("classify") = 3
    /\ FailCount("reason") = 4
    /\ Len(ToolFailures) = 1


\* C34: background poll with a pre-supplied Intent. Classify executes
\* exactly once whatever its outcome, and the arguments fetch_context
\* passes to the providers are those of the supplied Intent, not of an
\* Intent produced by the extraction.
C34_SuppliedIntentUsed ==
    caller = "worker" =>
        /\ Len(Runs("classify")) <= 1
        /\ pc # "classify" => Len(Runs("classify")) = 1
        /\ pc = "fetch_wait" =>
               fetch_arguments(state.user_context) = fetch_arguments(SuppliedContext)


\* The increments of counter k that reached the store, over the requests rs.
RECURSIVE Landed(_, _)
Landed(k, rs) ==
    IF rs = {} THEN 0
    ELSE LET r == CHOOSE x \in rs : TRUE
         IN  handler[r].calls[k] - handler[r].dropped[k] + Landed(k, rs \ {r})

\* The handler of request r returned a PlanResponse that carries a plan.
PlanReturned(r) ==
    /\ handler[r].at = "done"
    /\ "success" \in DOMAIN handler[r].response
    /\ handler[r].response.success
    /\ Truthy(handler[r].response.plan)

\* Every request went to /v1/plan and its handler has returned.
AllPlanDone ==
    \A r \in Requests : handler[r].route = "plan" /\ handler[r].at = "done"

C36_StreamSuccessNeedsPlan ==
    \A r \in Requests :
        handler[r].route = "stream" /\ handler[r].at = "done" =>
            /\ handler[r].calls["REQUESTS_SUCCESS"] = 1 => Truthy(runs[r].state.plan)
            /\ ~Truthy(runs[r].state.plan) => handler[r].calls["REQUESTS_FAILED"] = 1

====
